---- MODULE Spec2Model ----
(***************************************************************************)
(* Model of the huely capture pipeline: HuelyCLI.captureAndAnalyze         *)
(* (src/src/index.ts) driving WebcamManager.captureImage, isImageBlack and *)
(* clearOldCaptures (src/src/webcam.ts, the final WebcamManager at lines   *)
(* 462-748) and OpenAIClient.analyzeImage (src/unnamed/part_002).          *)
(* Start-up (listDevices, CLIUI.selectWebcam in src/src/cli-ui.ts) and the *)
(* exit path (HuelyCLI.cleanup, WebcamManager.cleanup) are modelled too.   *)
(*                                                                         *)
(* Spec          one session, from the first key to MaxCommands commands   *)
(* SpecDevices   initialize(): device discovery and selection              *)
(* SpecNormalize the webcam.capture callback on chosen directories         *)
(* SpecSession   a session, its exit, and the start of the next session    *)
(* SpecKeys      the key loop of run(): the dispatch of every command       *)
(* SpecConfig    ConfigManager on chosen config files                       *)
(* SpecCli       main(): the flags of the command line                      *)
(* SpecLive      Spec with every pending callback eventually run            *)
(* SpecSessionLive  SpecSession with the same fairness                      *)
(* SpecAfterFailure  the command that follows a failed analysis           *)
(* SpecRekey     K commands and captures with OPENAI_API_KEY set            *)
(*                                                                         *)
(* Time is in milliseconds.  A file name is a record [pre, sid, ext]; all  *)
(* files live in capturesDir.  File content is a run-length encoded byte   *)
(* sequence: a sequence of runs [v |-> byte value, n |-> repetitions].     *)
(***************************************************************************)
EXTENDS Integers, Sequences, FiniteSets, TLC

VARIABLES
  platform,      \* process.platform
  dirBlack,      \* whether the text of capturesDir (os.tmpdir()) contains "black"
  now,           \* Date.now()
  fs,            \* capturesDir: file name -> [mtime, data, readable]
  client,        \* the key HuelyCLI.openaiClient was built with, "null" when unset
  pc,            \* where the interactive session is waiting
  retryCount,    \* captureAndAnalyze: retryCount
  imagePath,     \* captureAndAnalyze: imagePath (NoName is null)
  uniqueId,      \* captureImage: uniqueId of the attempt in flight
  capturedPath,  \* captureImage: capturedPath while Jimp is awaited
  cbErr,         \* webcam.capture callback argument err
  cbData,        \* webcam.capture callback argument data
  commands,      \* number of capture commands started
  attempts,      \* history: the attempts of the current command
  waits,         \* history: the settle delays of the current command
  cmdStatus,     \* history: outcome of the current command
  cmdError,      \* history: the error thrown out of the retry loop
  ops,           \* history: file operations of the attempt in flight
  swept,         \* history: the names the sweep of the attempt in flight deleted,
                 \* kept until the facility exits; or those the exit cleanup deleted
  session,       \* history: "first" process, or the "next" one after a restart
  orphans,       \* history: the files an abandoned capture left behind
  dev,           \* device discovery: its inputs, the list and the selection
  shown,         \* history: the failure messages printed for the current command
  requests,      \* history: the files sent to the vision service for the current command
  exit,          \* how the process ended: code, who called for it, what had run
  conf,          \* ~/.huely/config.json and the ConfigManager that read it
  key,           \* the last chunk read from stdin and what it was dispatched to
  argv,          \* process.argv.slice(2)
  env            \* process.env.OPENAI_API_KEY, "null" when unset or empty

vars == <<platform, dirBlack, now, fs, client, pc, retryCount, imagePath,
          uniqueId, capturedPath, cbErr, cbData, commands, attempts, waits,
          cmdStatus, cmdError, ops, swept, session, orphans, dev,
          shown, requests, exit, conf, key, argv, env>>

----------------------------------------------------------------------------
(* Bounds of the model *)

MaxCommands == 1
StartTime == 100000

IdleDurations == {0, 31000}          \* time the user lets pass before a key
FacilityDurations == {6000}          \* run time of the capture facility
JimpDurations == {200}               \* run time of the conversion
AnalysisDurations == {3000}          \* run time of the vision request
RandomIds == {"k3x9qz"}              \* values of Math.random().toString(36)

MaxKeys == 3                         \* chunks read from stdin in a session

----------------------------------------------------------------------------
(* Program constants *)

maxRetries == 3
settleMs == 2000
staleMs == 5000
thirtySeconds_Minutes == 30 * 60 * 1000
thirtySeconds == 30 * 1000
fiveMinutes == 5 * 60 * 1000
headerSkip == 100
sampleWindow == 1000
darkBelow == 20

----------------------------------------------------------------------------
(* Names *)

NoSid == <<0, "">>
NoName == [pre |-> "", sid |-> NoSid, ext |-> ""]

imageExts == {".jpg", ".jpeg", ".bmp", ".ppm", ".png"}
extensions_BitmapFirst == <<".bmp", ".jpg", ".jpeg", ".ppm", ".png", "">>

\* the order in which the callback probes
extensions == <<".jpg", ".jpeg", ".bmp", ".ppm", ".png", "">>

tempFilename(plat, uid) ==
  [pre |-> "capture_temp_", sid |-> uid,
   ext |-> IF plat = "linux" THEN ".jpg" ELSE ""]

makeUniqueId_NoTimestamp(timestamp, randomId) == <<0, randomId>>

\* uniqueId = `${timestamp}_${randomId}`
makeUniqueId(timestamp, randomId) == <<timestamp, randomId>>

finalFilename(uid) == [pre |-> "capture_", sid |-> uid, ext |-> ".jpeg"]

\* tempFilepath.replace(/\.(jpg|jpeg|bmp|ppm|png)$/i, '')
baseFilepath(temp) == IF temp.ext \in imageExts THEN [temp EXCEPT !.ext = ""] ELSE temp

startsWithCapture_TempOnly(name) == name.pre = "capture_temp_"

\* file.startsWith('capture_')
startsWithCapture(name) == name.pre \in {"capture_", "capture_temp_"}

\* tryPath.includes(uniqueId)
includesId(name, uid) == name.sid = uid

----------------------------------------------------------------------------
(* Bytes *)

Run(v, n) == [v |-> v, n |-> n]

RECURSIVE length(_)
length(buf) == IF buf = <<>> THEN 0 ELSE Head(buf).n + length(Tail(buf))

\* buffer[i]; -1 stands for undefined (an index past the end)
RECURSIVE byteAt(_, _)
byteAt(buf, i) ==
  IF buf = <<>> THEN -1
  ELSE IF i < Head(buf).n THEN Head(buf).v
  ELSE byteAt(Tail(buf), i - Head(buf).n)

Max2(a, b) == IF a > b THEN a ELSE b
Min2(a, b) == IF a < b THEN a ELSE b

\* number of offsets i in [lo, hi) with buffer[i] < 20; off is the offset of
\* the first byte of buf
RECURSIVE darkCount(_, _, _, _)
darkCount(buf, off, lo, hi) ==
  IF buf = <<>> THEN 0
  ELSE LET r == Head(buf)
           a == Max2(off, lo)
           b == Min2(off + r.n, hi)
           here == IF r.v < darkBelow /\ b > a THEN b - a ELSE 0
       IN here + darkCount(Tail(buf), off + r.n, lo, hi)

ratioAboveNineTenths_AtLeast(num, den) == den > 0 /\ 10 * num >= 9 * den

\* (num / den) > 0.9 in IEEE arithmetic, for integers num >= 0
ratioAboveNineTenths(num, den) ==
  IF den = 0 THEN num > 0
  ELSE IF den > 0 THEN 10 * num > 9 * den
  ELSE 10 * num < 9 * den

isImageBlack(buffer) ==
  LET sampleSize == Min2(sampleWindow, length(buffer) - headerSkip)
      blackPixels == darkCount(buffer, 0, headerSkip, headerSkip + sampleSize)
  IN ratioAboveNineTenths(blackPixels, sampleSize)

isBmp(buffer) == byteAt(buffer, 0) = 66 /\ byteAt(buffer, 1) = 77
isPpm(buffer) == byteAt(buffer, 0) = 80 /\ byteAt(buffer, 1) = 54
isJpeg(buffer) == byteAt(buffer, 0) = 255 /\ byteAt(buffer, 1) = 216

\* Frames the capture facility can write
JpegBright == <<Run(255, 1), Run(216, 1), Run(96, 98), Run(128, 1000)>>
JpegBlack == <<Run(255, 1), Run(216, 1), Run(96, 98), Run(0, 1000)>>
BmpBright == <<Run(66, 1), Run(77, 1), Run(40, 98), Run(200, 1000)>>
BmpBlack == <<Run(66, 1), Run(77, 1), Run(40, 98), Run(0, 1000)>>
PpmBright == <<Run(80, 1), Run(54, 1), Run(10, 98), Run(200, 1000)>>
PngBright == <<Run(137, 1), Run(80, 1), Run(78, 98), Run(128, 1000)>>
EmptyFile == <<>>

RawFrames == {JpegBright, JpegBlack, BmpBright, BmpBlack, PpmBright, PngBright, EmptyFile}

----------------------------------------------------------------------------
(* Error messages.  An error is its message: the literal text, whether      *)
(* captureImage wrapped it in `Failed to process captured image: ${error}`, *)
(* the path and the directory listing interpolated into it.                 *)

NoErr == [text |-> "", wrapped |-> FALSE, path |-> NoName, files |-> {}]

blackText == "Captured image appears to be black. Camera may need more warm-up time."
notFoundText == "Captured image not found. Looked for: ${capturedPath} with ID: ${uniqueId}. Files in dir: ${files}"
staleText == "Captured image appears to be stale (${fileAge}ms old). This might be a previous capture."
readErrorText == "EACCES: permission denied, open '${capturedPath}'"
jimpErrorText == "Could not find MIME for Buffer <null>"
facilityErrorText == "Command failed: ${command} ${tempFilepath}"
exhaustedText == "Failed to capture image after multiple attempts"

Err(text, path, files) == [text |-> text, wrapped |-> TRUE, path |-> path, files |-> files]

\* s.includes('black') for the strings of the model
textHasBlack(s) == s \in {blackText, "blackboard"}

nameHasBlack(name) == textHasBlack(name.pre) \/ textHasBlack(name.sid[2]) \/ textHasBlack(name.ext)

\* captureError.message.includes('black')
messageIncludesBlack(e, dirHasBlack) ==
  \/ textHasBlack(e.text)
  \/ e.path # NoName /\ (dirHasBlack \/ nameHasBlack(e.path))
  \/ \E f \in e.files : nameHasBlack(f)

----------------------------------------------------------------------------
(* The captures directory *)

existsSync(fsys, name) == name \in DOMAIN fsys

unlinkSync(fsys, name) == [m \in DOMAIN fsys \ {name} |-> fsys[m]]

writeFile(fsys, name, file) ==
  [m \in DOMAIN fsys \cup {name} |-> IF m = name THEN file ELSE fsys[m]]

renameSync_Reencode(fsys, from, to) ==
  writeFile(unlinkSync(fsys, from), to,
            [fsys[from] EXCEPT !.data = <<Run(255, 1), Run(216, 1), Run(128, 1098)>>])

renameSync(fsys, from, to) == writeFile(unlinkSync(fsys, from), to, fsys[from])

File(mtime, data, readable) == [mtime |-> mtime, data |-> data, readable |-> readable]

clearOldCaptures_FinalOnly(fsys, t) ==
  LET doomed == {m \in DOMAIN fsys : m.pre = "capture_" /\ t - fsys[m].mtime > thirtySeconds}
  IN [m \in DOMAIN fsys \ doomed |-> fsys[m]]

\* the files left in capturesDir after the sweep run at time t
clearOldCaptures(fsys, t) ==
  LET doomed == {m \in DOMAIN fsys : startsWithCapture(m) /\ t - fsys[m].mtime > thirtySeconds}
  IN [m \in DOMAIN fsys \ doomed |-> fsys[m]]

cleanup_ThirtySeconds(fsys, t) ==
  [m \in {k \in DOMAIN fsys : t - fsys[k].mtime <= thirtySeconds} |-> fsys[m]]

\* WebcamManager.cleanup at time t: the files left in capturesDir
cleanup(fsys, t) ==
  [m \in {k \in DOMAIN fsys : t - fsys[k].mtime <= fiveMinutes} |-> fsys[m]]

\* the names in capturesDir that carry the session identifier uid
sessionFiles(fsys, uid) == {m \in DOMAIN fsys : includesId(m, uid)}

----------------------------------------------------------------------------
(* WebcamManager.captureImage: the callback of webcam.capture *)

isStale_Never(fileAge) == FALSE

\* fileAge > 5000
isStale(fileAge) == fileAge > staleMs

guardRejects_Skipped(buffer) == FALSE

\* the quality check of either branch: this.isImageBlack(...)
guardRejects(buffer) == isImageBlack(buffer)

convertFiles_KeepRaw(fsys, captured, final, file) == writeFile(fsys, final, file)

\* convert branch: image.write(finalFilepath), then fs.unlinkSync(capturedPath)
convertFiles(fsys, captured, final, file) == unlinkSync(writeFile(fsys, final, file), captured)

\* data || tempFilepath, then the probe of the candidate extensions
resolveCaptured(fsys, temp, uid, data) ==
  LET reported == IF data # NoName THEN data ELSE temp
      base == baseFilepath(temp)
      cand(i) == [base EXCEPT !.ext = extensions[i]]
      hits == {i \in 1..Len(extensions) : existsSync(fsys, cand(i)) /\ includesId(cand(i), uid)}
      first == CHOOSE i \in hits : \A j \in hits : i <= j
  IN IF existsSync(fsys, reported) THEN reported
     ELSE IF hits # {} THEN cand(first)
     ELSE reported

Outcome(kind, fsys, path, err, cause, oplog) ==
  [kind |-> kind, fs |-> fsys, path |-> path, err |-> err, cause |-> cause, ops |-> oplog]

\* The synchronous part of the callback's else branch, run at time t: it
\* resolves, rejects, or suspends on Jimp.read (kind "await").
normalize(fsys, t, plat, uid, data) ==
  LET temp == tempFilename(plat, uid)
      final == finalFilename(uid)
      captured == resolveCaptured(fsys, temp, uid, data)
  IN IF ~existsSync(fsys, captured)
     THEN Outcome("reject", fsys, captured,
                  Err(notFoundText, captured, DOMAIN fsys), "notfound", <<"exists">>)
     ELSE IF isStale(t - fsys[captured].mtime)
     THEN Outcome("reject", fsys, captured, Err(staleText, NoName, {}), "stale",
                  <<"exists", "stat">>)
     ELSE IF ~fsys[captured].readable
     THEN Outcome("reject", fsys, captured, Err(readErrorText, captured, {}), "read",
                  <<"exists", "stat", "read">>)
     ELSE LET buffer == fsys[captured].data
          IN IF isBmp(buffer) \/ isPpm(buffer)
             THEN Outcome("await", fsys, captured, NoErr, "pending",
                          <<"exists", "stat", "read", "jimp.read">>)
             ELSE IF guardRejects(buffer)
             THEN Outcome("reject", unlinkSync(fsys, captured), captured,
                          Err(blackText, NoName, {}), "black",
                          <<"exists", "stat", "read", "guard", "unlink">>)
             ELSE Outcome("resolve", renameSync(fsys, captured, final), final, NoErr,
                          "resolved", <<"exists", "stat", "read", "guard", "rename">>)

\* What Jimp makes of a raw frame: the JPEG it encodes, or a failure to decode
\* (PPM is decoded only by some builds of the library).
JimpOk(data) == [ok |-> TRUE, data |-> data]
JimpFail == [ok |-> FALSE, data |-> <<>>]

jimpResults(buffer) ==
  IF buffer = BmpBright THEN {JimpOk(JpegBright)}
  ELSE IF buffer = BmpBlack THEN {JimpOk(JpegBlack)}
  ELSE IF buffer = PpmBright THEN {JimpOk(JpegBright), JimpFail}
  ELSE {JimpFail}

\* The rest of the convert branch, run at time t once Jimp has finished
afterJimp(fsys, t, uid, captured, result) ==
  LET final == finalFilename(uid)
  IN IF ~result.ok
     THEN Outcome("reject", fsys, captured, Err(jimpErrorText, NoName, {}), "convert", <<>>)
     ELSE LET fs2 == convertFiles(fsys, captured, final, File(t, result.data, TRUE))
              finalBuffer == fs2[final].data
          IN IF guardRejects(finalBuffer)
             THEN Outcome("reject", fs2, final, Err(blackText, NoName, {}), "black",
                          <<"jimp.write", "unlink", "read", "guard">>)
             ELSE Outcome("resolve", fs2, final, NoErr, "resolved",
                          <<"jimp.write", "unlink", "read", "guard">>)

----------------------------------------------------------------------------
(* OpenAIClient.analyzeImage: the checks made before the request is sent *)

analyzeRejects_NoMagic(fsys, path) ==
  \/ ~existsSync(fsys, path)
  \/ length(fsys[path].data) = 0

\* the request is not sent: the file is missing, empty, or not a JPEG
analyzeRejects(fsys, path) ==
  \/ ~existsSync(fsys, path)
  \/ length(fsys[path].data) = 0
  \/ ~isJpeg(fsys[path].data)

----------------------------------------------------------------------------
(* CLIUI.waitForKeypress.  A chunk is the sequence of characters of one     *)
(* `data` event of stdin; "^C" is the byte 0x03, "CR" the Enter key.        *)

Chunks ==
  {<<" ">>, <<"q">>, <<"Q">>, <<"c">>, <<"C">>, <<"w">>, <<"W">>, <<"k">>, <<"K">>,
   <<"^C">>, <<"^C", "x">>, <<"x">>, <<"CR">>, <<" ", " ">>, <<"ESC", "[", "A">>}

waitForKeypress_LowerOnly(chunk) ==
  IF chunk[1] = "^C" THEN "quit"
  ELSE IF chunk = <<"q">> THEN "quit"
  ELSE IF chunk = <<" ">> THEN "capture"
  ELSE IF chunk = <<"c">> THEN "clear"
  ELSE IF chunk = <<"w">> THEN "switch"
  ELSE IF chunk = <<"k">> THEN "config"
  ELSE "none"

\* what the handler resolves with; "none" when it re-attaches itself
waitForKeypress(chunk) ==
  IF chunk[1] = "^C" THEN "quit"
  ELSE IF chunk = <<"q">> \/ chunk = <<"Q">> THEN "quit"
  ELSE IF chunk = <<" ">> THEN "capture"
  ELSE IF chunk = <<"c">> \/ chunk = <<"C">> THEN "clear"
  ELSE IF chunk = <<"w">> \/ chunk = <<"W">> THEN "switch"
  ELSE IF chunk = <<"k">> \/ chunk = <<"K">> THEN "config"
  ELSE "none"

NoKey == [chunk |-> <<>>, command |-> "none", skipped |-> 0, read |-> 0]

\* the record of a chunk read: what it resolves with, the unrecognised
\* chunks read in a row up to it, the chunks read in the session
Pressed(chunk) ==
  LET skippedSoFar == IF key.command = "none" THEN key.skipped ELSE 0
  IN [chunk |-> chunk, command |-> waitForKeypress(chunk),
      skipped |-> IF waitForKeypress(chunk) = "none" THEN skippedSoFar + 1
                  ELSE skippedSoFar,
      read |-> key.read + 1]

----------------------------------------------------------------------------
(* What a failed command prints *)

\* captureSpinner.fail in the catch clause of the retry loop
loopCatchShown == <<[via |-> "spinner.fail", text |-> "Capture failed: ${message}"]>>

\* showError in the catch clause around captureAndAnalyze
outerCatchShown ==
  <<[via |-> "showError", text |-> "Failed to capture/analyze: ${message}"]>>

notConfiguredShown ==
  <<[via |-> "showError", text |-> "OpenAI API key not configured. Press K to set it up."]>>

----------------------------------------------------------------------------
(* The end of the process.  `by` is the place that ended it: "cleanup",     *)
(* "initialize" and "main" call process.exit, "runtime" is the death at an  *)
(* uncaught exception or unhandled rejection; `asked` is "quit", "signal"  *)
(* or "" when nobody asked.                                                 *)

Exited(code, by, asked, artifacts, ui) ==
  [code |-> code, by |-> by, asked |-> asked, artifacts |-> artifacts, ui |-> ui]

NoExit == Exited(0 - 1, "", "", FALSE, FALSE)

----------------------------------------------------------------------------
(* ConfigManager.  A config object is a function from property names to   *)
(* strings; the text of config.json is a sequence of <<name, value>> pairs, *)
(* or not JSON at all.                                                      *)

null == "null"

ApiKeys == {"sk-live", "sk-next"}       \* what promptApiKey lets through

NoFile == [kind |-> "missing", text |-> <<>>]
Garbage == [kind |-> "garbage", text |-> <<>>]
Json(text) == [kind |-> "json", text |-> text]

\* JSON.parse of an object text; of a repeated name the last value stays
parse(text) ==
  [n \in {text[i][1] : i \in 1..Len(text)} |->
     text[CHOOSE i \in 1..Len(text) :
            text[i][1] = n /\ \A j \in (i + 1)..Len(text) : text[j][1] # n][2]]

\* JSON.stringify(config, null, 2)
stringify(config) ==
  LET present == SelectSeq(<<"model", "openaiApiKey">>, LAMBDA n : n \in DOMAIN config)
  IN [i \in 1..Len(present) |-> <<present[i], config[present[i]]>>]

\* loadConfig: the parsed file, {} when it is missing or does not parse
loadConfig(file) == IF file.kind = "json" THEN parse(file.text) ELSE << >>

saveConfig_Nothing(config) == NoFile

\* saveConfig: the text written to config.json
saveConfig(config) == Json(stringify(config))

\* this.config.openaiApiKey || null
getApiKey(config) ==
  IF "openaiApiKey" \in DOMAIN config /\ config["openaiApiKey"] # ""
  THEN config["openaiApiKey"]
  ELSE null

initializeOpenAI_EnvironmentFirst(config, environment, current) ==
  LET apiKey == IF environment # null THEN environment ELSE getApiKey(config)
  IN IF apiKey = null THEN current ELSE apiKey

\* the key openaiClient is built with after initializeOpenAI: the stored key
\* or else the environment's; without a key the field keeps what it held
initializeOpenAI(config, environment, current) ==
  LET apiKey == IF getApiKey(config) # null THEN getApiKey(config) ELSE environment
  IN IF apiKey = null THEN current ELSE apiKey

\* this.config.openaiApiKey = apiKey
assignKey(config, apiKey) ==
  [n \in DOMAIN config \cup {"openaiApiKey"} |->
     IF n = "openaiApiKey" THEN apiKey ELSE config[n]]

\* delete this.config.openaiApiKey
deleteKey(config) == [n \in DOMAIN config \ {"openaiApiKey"} |-> config[n]]

\* the store: the file, the config of the live ConfigManager, and as history
\* the last operation, its argument, and whether the instance is younger
Store(file, config, op, arg, fresh) ==
  [file |-> file, config |-> config, op |-> op, arg |-> arg, fresh |-> fresh]

newConfigManager(file) == Store(file, loadConfig(file), "load", "", TRUE)

setApiKey(store, apiKey) ==
  Store(saveConfig(assignKey(store.config, apiKey)), assignKey(store.config, apiKey),
        "set", apiKey, FALSE)

clearApiKey(store) ==
  Store(saveConfig(deleteKey(store.config)), deleteKey(store.config), "clear", "", FALSE)

----------------------------------------------------------------------------
(* HuelyCLI.captureAndAnalyze *)

settleDelay_Backoff(retry) == settleMs * retry

\* setTimeout(resolve, 2000) before retry number `retry`
settleDelay(retry) == settleMs

setLast(seq, outcome) == [seq EXCEPT ![Len(seq)].outcome = outcome]

\* what a throw inside the async executor of captureImage leads to: the
\* executor's own promise rejects unhandled, the promise captureImage returned
\* is never settled; the runtime either only warns, and the command waits for
\* ever, or it ends the process at the unhandled rejection
afterExecutorThrow == {"pending", "exited"}

\* captureImage up to the call of webcam.capture, at time t with random id r;
\* prior are the earlier attempts of the command; webcam.capture may throw
\* instead of starting the facility
StartAttempt(t, r, prior) ==
  /\ now' = t
  /\ uniqueId' = makeUniqueId(t, r)
  /\ fs' = clearOldCaptures(fs, t)
  /\ swept' = DOMAIN fs \ DOMAIN clearOldCaptures(fs, t)
  /\ attempts' = Append(prior, [sid |-> makeUniqueId(t, r), outcome |-> "pending"])
  /\ ops' = <<"sweep", "capture">>
  /\ capturedPath' = NoName
  /\ cbErr' = NoErr
  /\ cbData' = NoName
  /\ \/ pc' = "invoking" /\ exit' = exit
     \/ /\ pc' \in afterExecutorThrow
        /\ exit' = IF pc' = "exited" THEN Exited(1, "runtime", "", FALSE, FALSE) ELSE exit

Resolved_Twice(o) ==
  /\ imagePath' = o.path
  /\ attempts' = setLast(attempts, "resolved")
  /\ UNCHANGED <<retryCount, waits, cmdError>>
  /\ pc' = "analyzing"
  /\ cmdStatus' = "analyzing"
  /\ shown' = shown
  /\ requests' = requests \o <<o.path, o.path>>

\* `imagePath = await captureImage()` resolved; then analyzeImage up to the request
Resolved(o) ==
  /\ imagePath' = o.path
  /\ attempts' = setLast(attempts, "resolved")
  /\ UNCHANGED <<retryCount, waits, cmdError>>
  /\ IF analyzeRejects(o.fs, o.path)
     THEN /\ pc' = "listening"
          /\ cmdStatus' = "analysis_failed"
          /\ shown' = outerCatchShown
          /\ requests' = requests
     ELSE /\ pc' = "analyzing"
          /\ cmdStatus' = "analyzing"
          /\ shown' = shown
          /\ requests' = Append(requests, o.path)

\* the catch clause of the retry loop
Rejected(err, cause) ==
  /\ retryCount' = retryCount + 1
  /\ attempts' = setLast(attempts, cause)
  /\ UNCHANGED imagePath
  /\ IF messageIncludesBlack(err, dirBlack) /\ retryCount + 1 < maxRetries
     THEN /\ pc' = "settling"
          /\ waits' = Append(waits, settleDelay(retryCount + 1))
          /\ UNCHANGED <<cmdStatus, cmdError, shown, requests>>
     ELSE /\ pc' = "listening"
          /\ cmdStatus' = "capture_failed"
          /\ cmdError' = err
          /\ shown' = loopCatchShown \o outerCatchShown
          /\ UNCHANGED <<waits, requests>>

\* captureImage settles with outcome o, or suspends on Jimp
Settle(o) ==
  /\ fs' = o.fs
  /\ ops' = ops \o o.ops
  /\ IF o.kind = "await"
     THEN /\ pc' = "converting"
          /\ capturedPath' = o.path
          /\ UNCHANGED <<retryCount, imagePath, attempts, waits, cmdStatus, cmdError,
                         shown, requests>>
     ELSE /\ capturedPath' = NoName
          /\ IF o.kind = "resolve" THEN Resolved(o) ELSE Rejected(o.err, o.cause)

----------------------------------------------------------------------------
(* WebcamManager.listDevices, CLIUI.selectWebcam *)

\* the /dev/video<i> nodes that may exist; the code probes i = 0..9
VideoNodes == {0, 1}
\* what NodeWebcam.list may hand to its callback: indices, "" as a falsy
\* entry, or the path of a device node beyond the ten nodes the code probes
WebcamLists == {<<>>, <<"1">>, <<"1", "2">>, <<"">>, <<"/dev/video10">>}
\* what getCameraNames may resolve with; <<>> when the lookup fails
CameraNameLists == {<<>>, <<"HD Webcam">>}

Device(name, id) == [name |-> name, id |-> id]

\* `${parseInt(device) + 1}` for the entries of WebcamLists
parseIntPlusOne(device) ==
  IF device = "1" THEN "2" ELSE IF device = "2" THEN "3" ELSE "NaN"

\* the devices of /dev/video<i>, i ascending, for the nodes in S
RECURSIVE videoDevices(_)
videoDevices(S) ==
  IF S = {} THEN <<>>
  ELSE LET i == CHOOSE m \in S : \A k \in S : m <= k
       IN <<Device("USB Camera (video" \o ToString(i) \o ")", ToString(i))>>
            \o videoDevices(S \ {i})

\* list.map((device, index) => ...), index counted from 0
mapDevices(list, cameraNames) ==
  [k \in 1..Len(list) |->
     LET device == list[k]
         known == IF k <= Len(cameraNames) THEN cameraNames[k] ELSE ""
         deviceName ==
           IF known # "" THEN known
           ELSE IF device # ""
                THEN "Webcam " \o parseIntPlusOne(device) \o " (Device " \o device \o ")"
                ELSE "Camera " \o ToString(k)
     IN Device(deviceName, IF device # "" THEN device ELSE ToString(k - 1))]

listDevices_NoFallback(plat, nodes, list, cameraNames) ==
  IF plat = "linux" /\ nodes # {} THEN videoDevices(nodes) ELSE mapDevices(list, cameraNames)

\* the list listDevices resolves with
listDevices(plat, nodes, list, cameraNames) ==
  IF plat = "linux" /\ nodes # {} THEN videoDevices(nodes)
  ELSE IF Len(list) = 0 THEN <<Device("Default Camera", "0")>>
  ELSE mapDevices(list, cameraNames)

noWebcamsText == "No webcams available"

\* the ids selectWebcam may return; {} when it throws
selectWebcam(devices) ==
  IF Len(devices) = 0 THEN {}
  ELSE IF Len(devices) = 1 THEN {devices[1].id}
  ELSE {devices[k].id : k \in 1..Len(devices)}

selectPrompts_Always(devices) == Len(devices) >= 1

\* whether selectWebcam reaches inquirer.prompt
selectPrompts(devices) == Len(devices) >= 2

\* opts.device, the device handed to NodeWebcam.create
initializeWebcam(plat, deviceId) ==
  IF plat = "linux" THEN "/dev/video" \o deviceId ELSE deviceId

\* the hardware, what was enumerated and selected, and the device the
\* facility was created with (none before the first selection)
Discovery(nodes, list, names, devices, selected, prompted, error) ==
  [nodes |-> nodes, list |-> list, names |-> names, devices |-> devices,
   selected |-> selected, prompted |-> prompted, error |-> error,
   device |-> IF selected = "" THEN "" ELSE initializeWebcam(platform, selected)]

\* a finished start-up: nothing enumerated, the simulated device selected
DefaultStartup ==
  Discovery({}, <<>>, <<>>, <<Device("Default Camera", "0")>>, "0", FALSE, "")

----------------------------------------------------------------------------
(* Actions *)

\* where the capture facility may write, given tempFilepath
WrittenExts == {".jpg", ""}

\* the frames of a file written at the start of the facility's run
EarlyFrames == {JpegBright, BmpBlack}

\* a path the facility may choose by itself and hand to the callback as `data`
ownFilename == [pre |-> "snapshot", sid |-> NoSid, ext |-> ".jpg"]
OwnFrames == {JpegBright, BmpBright}

Leftovers ==
  {[name |-> [pre |-> "capture_", sid |-> <<50000, "old111">>, ext |-> ".jpeg"],
    file |-> File(50000, JpegBright, TRUE)],
   [name |-> [pre |-> "capture_temp_", sid |-> <<75000, "yng222">>, ext |-> ".jpg"],
    file |-> File(75000, JpegBright, TRUE)]}

dirOf(S) == [m \in {l.name : l \in S} |-> (CHOOSE l \in S : l.name = m).file]

\* the state the constructors leave, before initialize() has run
Constructed ==
  /\ platform \in {"linux", "win32"}
  /\ dirBlack \in BOOLEAN
  /\ now = StartTime
  /\ \E S \in SUBSET Leftovers : fs = dirOf(S)
  /\ retryCount = 0
  /\ imagePath = NoName
  /\ uniqueId = NoSid
  /\ capturedPath = NoName
  /\ cbErr = NoErr
  /\ cbData = NoName
  /\ commands = 0
  /\ attempts = <<>>
  /\ waits = <<>>
  /\ cmdStatus = "none"
  /\ cmdError = NoErr
  /\ ops = <<>>
  /\ swept = {}
  /\ session = "first"
  /\ orphans = {}
  /\ shown = <<>>
  /\ requests = <<>>
  /\ exit = NoExit
  /\ \E file \in {NoFile, saveConfig(assignKey(<< >>, "sk-live"))} :
       conf = newConfigManager(file)
  /\ env \in {null, "sk-env"}
  /\ client = initializeOpenAI(conf.config, env, null)
  /\ key = NoKey
  /\ argv = {}

\* initialize() has finished: the session listens for keys
Init ==
  /\ Constructed
  /\ env = null
  /\ pc = "listening"
  /\ dev = DefaultStartup

CaptureCommand_SweepsWithoutKey ==
  /\ pc = "listening"
  /\ commands < MaxCommands
  /\ key.read < MaxKeys
  /\ commands' = commands + 1
  /\ \E chunk \in Chunks : waitForKeypress(chunk) = "capture" /\ key' = Pressed(chunk)
  /\ requests' = <<>>
  /\ \E idle \in IdleDurations, r \in RandomIds :
       IF client = null
       THEN /\ now' = now + idle
            /\ cmdStatus' = "no_key"
            /\ shown' = notConfiguredShown
            /\ attempts' = <<>>
            /\ waits' = <<>>
            /\ cmdError' = NoErr
            /\ ops' = <<>>
            /\ fs' = clearOldCaptures(fs, now + idle)
            /\ UNCHANGED <<pc, retryCount, imagePath, uniqueId, capturedPath, cbErr, cbData,
                           swept, exit>>
       ELSE /\ retryCount' = 0
            /\ imagePath' = NoName
            /\ cmdStatus' = "capturing"
            /\ shown' = <<>>
            /\ cmdError' = NoErr
            /\ waits' = <<>>
            /\ StartAttempt(now + idle, r, <<>>)
  /\ UNCHANGED <<platform, dirBlack, client, session, orphans, dev, conf, argv, env>>

\* run(): the key 'capture' arrives after an idle time; captureAndAnalyze
\* runs up to its first suspension
CaptureCommand ==
  /\ pc = "listening"
  /\ commands < MaxCommands
  /\ key.read < MaxKeys
  /\ commands' = commands + 1
  /\ \E chunk \in Chunks : waitForKeypress(chunk) = "capture" /\ key' = Pressed(chunk)
  /\ requests' = <<>>
  /\ \E idle \in IdleDurations, r \in RandomIds :
       IF client = null
       THEN /\ now' = now + idle
            /\ cmdStatus' = "no_key"
            /\ shown' = notConfiguredShown
            /\ attempts' = <<>>
            /\ waits' = <<>>
            /\ cmdError' = NoErr
            /\ ops' = <<>>
            /\ UNCHANGED <<fs, pc, retryCount, imagePath, uniqueId, capturedPath, cbErr, cbData,
                           swept, exit>>
       ELSE /\ retryCount' = 0
            /\ imagePath' = NoName
            /\ cmdStatus' = "capturing"
            /\ shown' = <<>>
            /\ cmdError' = NoErr
            /\ waits' = <<>>
            /\ StartAttempt(now + idle, r, <<>>)
  /\ UNCHANGED <<platform, dirBlack, client, session, orphans, dev, conf, argv, env>>

\* the capture facility (fswebcam, CommandCam, imagesnap) exits: it failed, or
\* it wrote at most one file, at the start or at the end of its run, and
\* reports a path or none; the file is at a name derived from tempFilepath,
\* or at a name of the facility's own, which it then reports
FacilityExit ==
  /\ pc = "invoking"
  /\ pc' = "callback"
  /\ LET temp == tempFilename(platform, uniqueId)
     IN \E run \in FacilityDurations :
          /\ now' = now + run
          /\ \/ /\ cbErr' = [text |-> facilityErrorText, wrapped |-> FALSE,
                             path |-> temp, files |-> {}]
                /\ cbData' = NoName
                /\ fs' = fs
             \/ /\ cbErr' = NoErr
                /\ cbData' = NoName
                /\ fs' = fs
             \/ \E e \in WrittenExts, lag \in {0, run} :
                \E frame \in (IF lag = 0 THEN RawFrames ELSE EarlyFrames) :
                  LET written == [baseFilepath(temp) EXCEPT !.ext = e]
                  IN /\ cbErr' = NoErr
                     /\ cbData' \in {NoName, written}
                     /\ fs' = writeFile(fs, written, File(now + run - lag, frame, TRUE))
             \/ /\ cbErr' = NoErr
                /\ cbData' = temp
                /\ fs' = writeFile(fs, temp, File(now + run, JpegBright, FALSE))
             \/ \E frame \in OwnFrames :
                  /\ cbErr' = NoErr
                  /\ cbData' = ownFilename
                  /\ fs' = writeFile(fs, ownFilename, File(now + run, frame, TRUE))
  /\ swept' = {}
  /\ UNCHANGED <<platform, dirBlack, client, retryCount, imagePath, uniqueId, capturedPath,
                 commands, attempts, waits, cmdStatus, cmdError, ops,
                 session, orphans, dev, shown, requests, exit, conf, key, argv, env>>

\* the callback passed to webcam.capture, and what follows in captureAndAnalyze
CaptureCallback ==
  /\ pc = "callback"
  /\ IF cbErr # NoErr
     THEN /\ Rejected(cbErr, "facility")
          /\ UNCHANGED <<fs, ops, capturedPath>>
     ELSE Settle(normalize(fs, now, platform, uniqueId, cbData))
  /\ cbErr' = NoErr
  /\ cbData' = NoName
  /\ UNCHANGED <<platform, dirBlack, client, now, uniqueId, commands,
                 swept, session, orphans, dev, exit, conf, key, argv, env>>

\* Jimp.read and image.write finish; the convert branch runs to its end
JimpDone ==
  /\ pc = "converting"
  /\ \E d \in JimpDurations, result \in jimpResults(fs[capturedPath].data) :
       /\ now' = now + d
       /\ Settle(afterJimp(fs, now + d, uniqueId, capturedPath, result))
  /\ UNCHANGED <<platform, dirBlack, client, uniqueId, cbErr, cbData, commands,
                 swept, session, orphans, dev, exit, conf, key, argv, env>>

\* the settle timer fires; the retry loop starts the next attempt
SettleTimer ==
  /\ pc = "settling"
  /\ IF imagePath = NoName /\ retryCount < maxRetries
     THEN /\ \E r \in RandomIds : StartAttempt(now + waits[Len(waits)], r, attempts)
          /\ UNCHANGED <<retryCount, imagePath, waits, cmdStatus, cmdError, shown>>
     ELSE /\ pc' = "listening"
          /\ cmdStatus' = "capture_failed"
          /\ cmdError' = [text |-> exhaustedText, wrapped |-> FALSE, path |-> NoName, files |-> {}]
          /\ shown' = outerCatchShown
          /\ now' = now + waits[Len(waits)]
          /\ UNCHANGED <<fs, retryCount, imagePath, uniqueId, capturedPath, cbErr, cbData,
                         attempts, waits, ops, swept, exit>>
  /\ UNCHANGED <<platform, dirBlack, client, commands, session, orphans, dev,
                 requests, conf, key, argv, env>>

\* the vision request settles
AnalysisDone ==
  /\ pc = "analyzing"
  /\ pc' = "listening"
  /\ \E d \in AnalysisDurations : now' = now + d
  /\ cmdStatus' \in {"done", "analysis_failed"}
  /\ shown' = IF cmdStatus' = "done" THEN shown ELSE outerCatchShown
  /\ UNCHANGED <<platform, dirBlack, fs, client, retryCount, imagePath, uniqueId, capturedPath,
                 cbErr, cbData, commands, attempts, waits, cmdError, ops,
                 swept, session, orphans, dev, requests, exit, conf, key, argv, env>>

Next ==
  \/ CaptureCommand
  \/ FacilityExit
  \/ CaptureCallback
  \/ JimpDone
  \/ SettleTimer
  \/ AnalysisDone

Spec == Init /\ [][Next]_vars

\* the capture facility calls back, Jimp and the vision request settle, the
\* settle timer fires, and the event loop runs every callback that is due
SpecLive ==
  /\ Spec
  /\ WF_vars(FacilityExit)
  /\ WF_vars(CaptureCallback)
  /\ WF_vars(JimpDone)
  /\ WF_vars(SettleTimer)
  /\ WF_vars(AnalysisDone)

----------------------------------------------------------------------------
(* Leaving and restarting: HuelyCLI.cleanup, a new process *)

QuitDelays == {0, 31000, 300000, 301000}    \* time before the key 'quit' or a signal
RestartGaps == {1000, 30000}         \* time between exit and the next start

\* a capture attempt is in flight, or the retry loop waits between attempts
captureUnfinished == pc \in {"invoking", "pending", "callback", "converting", "settling"}

\* the files on disk that the attempts of the current command produced
producedFiles(fsys) ==
  {f \in DOMAIN fsys : \E k \in 1..Len(attempts) : includesId(f, attempts[k].sid)}
    \cup {f \in DOMAIN fsys : /\ f = ownFilename
                              /\ pc \in {"callback", "converting"}
                              /\ fsys[f].mtime = now}

\* HuelyCLI.cleanup, called for by `asked`: WebcamManager.cleanup, CLIUI.cleanup,
\* process.exit(0).  readdirSync throws when capturesDir has been removed,
\* which the model allows when it holds no file; the exception then ends
\* the process before the remaining steps
Leave(asked) ==
  /\ pc \in {"listening", "invoking", "pending", "callback", "converting", "settling",
              "analyzing"}
  /\ pc' = "exited"
  /\ \E idle \in (IF pc = "listening" THEN QuitDelays ELSE {0}),
        dirRemoved \in (IF DOMAIN fs = {} THEN BOOLEAN ELSE {FALSE}) :
       /\ now' = now + idle
       /\ fs' = cleanup(fs, now + idle)
       /\ swept' = DOMAIN fs \ DOMAIN cleanup(fs, now + idle)
       /\ exit' = IF dirRemoved
                  THEN Exited(1, IF asked = "quit" THEN "main" ELSE "runtime", asked,
                              FALSE, FALSE)
                  ELSE Exited(0, "cleanup", asked, TRUE, TRUE)
       /\ IF captureUnfinished
          THEN /\ orphans' = producedFiles(cleanup(fs, now + idle))
               /\ cmdStatus' = "abandoned"
          ELSE UNCHANGED <<orphans, cmdStatus>>
  /\ UNCHANGED <<platform, dirBlack, client, retryCount, imagePath, uniqueId, capturedPath,
                 cbErr, cbData, commands, attempts, waits, cmdError, ops,
                 session, dev, shown, requests, conf, argv, env>>

\* SIGINT or SIGTERM, at any point of the session
Shutdown == Leave("signal") /\ key' = key

\* the program is started again: a new process over the same capturesDir
Restart ==
  /\ pc = "exited"
  /\ session = "first"
  /\ session' = "next"
  /\ pc' = "listening"
  /\ \E gap \in RestartGaps : now' = now + gap
  /\ retryCount' = 0
  /\ imagePath' = NoName
  /\ uniqueId' = NoSid
  /\ capturedPath' = NoName
  /\ cbErr' = NoErr
  /\ cbData' = NoName
  /\ commands' = 0
  /\ exit' = NoExit
  /\ key' = NoKey
  /\ conf' = newConfigManager(conf.file)
  /\ UNCHANGED <<platform, dirBlack, client, fs, attempts, waits, cmdStatus, cmdError, ops,
                 swept, orphans, dev, shown, requests, argv, env>>

\* an empty capturesDir, a configured key, a path without "black"
InitSession ==
  /\ Init
  /\ fs = << >>
  /\ client # null
  /\ ~dirBlack

\* the first process runs in full; the next one is followed up to the sweep
\* and the facility call of its first capture attempt
NextSession ==
  \/ CaptureCommand
  \/ session = "first" /\ FacilityExit
  \/ session = "first" /\ CaptureCallback
  \/ session = "first" /\ JimpDone
  \/ session = "first" /\ SettleTimer
  \/ session = "first" /\ AnalysisDone
  \/ session = "first" /\ Shutdown
  \/ Restart

SpecSession == InitSession /\ [][NextSession]_vars

\* the same fairness for the process that is followed in full; keys, signals
\* and restarts are the user's and are under no obligation
SpecSessionLive ==
  /\ SpecSession
  /\ WF_vars(session = "first" /\ FacilityExit)
  /\ WF_vars(session = "first" /\ CaptureCallback)
  /\ WF_vars(session = "first" /\ JimpDone)
  /\ WF_vars(session = "first" /\ SettleTimer)
  /\ WF_vars(session = "first" /\ AnalysisDone)

----------------------------------------------------------------------------
(* A command after a failed analysis.  The session has run one capture      *)
(* command: the capture succeeded at the first attempt, the request was     *)
(* sent and the vision service failed.  The artifact of that command is     *)
(* still in capturesDir; `commands` counts the commands that follow.        *)

InitAfterFailure ==
  LET earlier == makeUniqueId(StartTime - 9000, "k3x9qz")
  IN /\ platform \in {"linux", "win32"}
     /\ dirBlack = FALSE
     /\ now = StartTime
     /\ fs = writeFile(<< >>, finalFilename(earlier), File(StartTime - 3000, JpegBright, TRUE))
     /\ client = "sk-live"
     /\ pc = "listening"
     /\ retryCount = 0
     /\ imagePath = finalFilename(earlier)
     /\ uniqueId = earlier
     /\ capturedPath = NoName
     /\ cbErr = NoErr
     /\ cbData = NoName
     /\ commands = 0
     /\ attempts = <<[sid |-> earlier, outcome |-> "resolved"]>>
     /\ waits = <<>>
     /\ cmdStatus = "analysis_failed"
     /\ cmdError = NoErr
     /\ ops = <<"sweep", "capture", "exists", "stat", "read", "guard", "rename">>
     /\ swept = {}
     /\ session = "first"
     /\ orphans = {}
     /\ dev = DefaultStartup
     /\ shown = outerCatchShown
     /\ requests = <<finalFilename(earlier)>>
     /\ exit = NoExit
     /\ conf = newConfigManager(saveConfig(assignKey(<< >>, "sk-live")))
     /\ key = [chunk |-> <<" ">>, command |-> "capture", skipped |-> 0, read |-> 1]
     /\ argv = {}
     /\ env = null

SpecAfterFailure == InitAfterFailure /\ [][Next]_vars

----------------------------------------------------------------------------
(* The key loop of HuelyCLI.run *)

\* what the key loop leaves alone between two captures
captureState ==
  <<platform, dirBlack, now, fs, retryCount, imagePath, uniqueId, capturedPath, cbErr,
    cbData, commands, attempts, waits, cmdStatus, cmdError, ops, swept, session, orphans,
    requests, argv, env>>

\* a chunk no branch of the handler recognises: the handler attaches itself
\* again and waitForKeypress stays pending
IgnoredKey ==
  /\ pc = "listening"
  /\ key.read < MaxKeys
  /\ \E chunk \in Chunks : waitForKeypress(chunk) = "none" /\ key' = Pressed(chunk)
  /\ UNCHANGED <<captureState, pc, client, dev, shown, exit, conf>>

\* case 'clear': clearScreen
ClearCommand ==
  /\ pc = "listening"
  /\ key.read < MaxKeys
  /\ \E chunk \in Chunks : waitForKeypress(chunk) = "clear" /\ key' = Pressed(chunk)
  /\ shown' = <<>>
  /\ UNCHANGED <<captureState, pc, client, dev, exit, conf>>

\* case 'switch': selectAndInitializeWebcam over the same hardware
SwitchCommand ==
  /\ pc = "listening"
  /\ key.read < MaxKeys
  /\ \E chunk \in Chunks : waitForKeypress(chunk) = "switch" /\ key' = Pressed(chunk)
  /\ LET devices == listDevices(platform, dev.nodes, dev.list, dev.names)
     IN \E id \in selectWebcam(devices) :
          dev' = [dev EXCEPT !.devices = devices, !.selected = id,
                             !.device = initializeWebcam(platform, id),
                             !.prompted = selectPrompts(devices)]
  /\ shown' = <<>>
  /\ UNCHANGED <<captureState, pc, client, exit, conf>>

\* case 'config': configureApiKey.  promptApiKey yields a key it validated;
\* setApiKey assigns it and writes config.json; when writeFileSync throws,
\* the exception leaves configureApiKey and run(), and the catch clause of
\* main() exits with code 1
ConfigCommand ==
  /\ pc = "listening"
  /\ key.read < MaxKeys
  /\ \E chunk \in Chunks : waitForKeypress(chunk) = "config" /\ key' = Pressed(chunk)
  /\ \E apiKey \in ApiKeys, written \in BOOLEAN :
       IF written
       THEN /\ conf' = setApiKey(conf, apiKey)
            /\ client' = initializeOpenAI(conf'.config, env, client)
            /\ shown' = IF getApiKey(conf'.config) # null \/ env # null THEN <<>>
                        ELSE <<[via |-> "showError", text |-> "Failed to configure API key"]>>
            /\ UNCHANGED <<pc, exit>>
       ELSE /\ conf' = [conf EXCEPT !.config = assignKey(conf.config, apiKey)]
            /\ pc' = "exited"
            /\ exit' = Exited(1, "main", "", FALSE, FALSE)
            /\ shown' = <<[via |-> "console.error", text |-> "Fatal error: ${error}"]>>
            /\ UNCHANGED client
  /\ UNCHANGED <<captureState, dev>>

\* case 'quit': the loop ends and run() calls cleanup
QuitCommand ==
  /\ pc = "listening"
  /\ \E chunk \in Chunks : waitForKeypress(chunk) = "quit" /\ key' = Pressed(chunk)
  /\ Leave("quit")

\* a started session on Linux: an empty capturesDir, a path without "black",
\* two cameras enumerated and the first one selected at the prompt, the key
\* configured or not
InitKeys ==
  /\ Constructed
  /\ env = null
  /\ pc = "listening"
  /\ platform = "linux"
  /\ dev = Discovery({}, <<"1", "2">>, <<>>, mapDevices(<<"1", "2">>, <<>>), "1", TRUE, "")
  /\ fs = << >>
  /\ ~dirBlack

\* the key loop, each capture followed up to the call of the capture facility
NextKeys ==
  \/ IgnoredKey
  \/ CaptureCommand
  \/ ClearCommand
  \/ SwitchCommand
  \/ ConfigCommand
  \/ QuitCommand

SpecKeys == InitKeys /\ [][NextKeys]_vars

\* a started session on Linux with OPENAI_API_KEY set, with or without a
\* stored key, in which keys are configured and captures are followed to the
\* answer of the vision service
InitRekey ==
  /\ Constructed
  /\ env # null
  /\ pc = "listening"
  /\ platform = "linux"
  /\ dev = DefaultStartup
  /\ fs = << >>
  /\ ~dirBlack

NextRekey ==
  \/ ConfigCommand
  \/ CaptureCommand
  \/ FacilityExit
  \/ CaptureCallback
  \/ JimpDone
  \/ SettleTimer
  \/ AnalysisDone

SpecRekey == InitRekey /\ [][NextRekey]_vars

----------------------------------------------------------------------------
(* The credential store on chosen files *)

\* config.json as the program may find it: absent, not JSON, or an object
\* with or without the key, with another property, with a repeated name
ConfigFiles ==
  {NoFile, Garbage, Json(<<>>),
   Json(<<<<"openaiApiKey", "sk-live">>>>),
   Json(<<<<"openaiApiKey", "">>>>),
   Json(<<<<"model", "gpt-4o">>>>),
   Json(<<<<"model", "gpt-4o">>, <<"openaiApiKey", "sk-live">>>>),
   Json(<<<<"openaiApiKey", "sk-live">>, <<"model", "gpt-4o-mini">>>>),
   Json(<<<<"openaiApiKey", "sk-old">>, <<"openaiApiKey", "sk-live">>>>)}

\* no session has run: nothing captured, shown, read or ended
Blank ==
  /\ platform \in {"linux", "win32"}
  /\ dirBlack = FALSE
  /\ now = StartTime
  /\ fs = << >>
  /\ retryCount = 0
  /\ imagePath = NoName
  /\ uniqueId = NoSid
  /\ capturedPath = NoName
  /\ cbErr = NoErr
  /\ cbData = NoName
  /\ commands = 0
  /\ attempts = <<>>
  /\ waits = <<>>
  /\ cmdStatus = "none"
  /\ cmdError = NoErr
  /\ ops = <<>>
  /\ swept = {}
  /\ session = "first"
  /\ orphans = {}
  /\ dev = DefaultStartup
  /\ shown = <<>>
  /\ requests = <<>>
  /\ exit = NoExit
  /\ key = NoKey

InitConfig ==
  /\ Blank
  /\ \E file \in ConfigFiles :
       /\ conf = newConfigManager(file)
       /\ client = getApiKey(loadConfig(file))
  /\ pc = "store"
  /\ argv = {}
  /\ env = null

\* setApiKey(apiKey); when writeFileSync throws, the call throws with the
\* assignment made and the file as it was
SetApiKey ==
  /\ pc = "store"
  /\ \E apiKey \in ApiKeys :
       \/ conf' = setApiKey(conf, apiKey)
       \/ conf' = Store(conf.file, assignKey(conf.config, apiKey), "set threw", apiKey, FALSE)
  /\ UNCHANGED <<captureState, pc, client, dev, shown, exit, key>>

\* clearApiKey(), with the same failure
ClearApiKey ==
  /\ pc = "store"
  /\ \/ conf' = clearApiKey(conf)
     \/ conf' = Store(conf.file, deleteKey(conf.config), "clear threw", "", FALSE)
  /\ UNCHANGED <<captureState, pc, client, dev, shown, exit, key>>

\* new ConfigManager() in a later process, over the file the last operation
\* left; the record of that operation is kept
NewConfigManager ==
  /\ pc = "store"
  /\ conf' = Store(conf.file, loadConfig(conf.file), conf.op, conf.arg, TRUE)
  /\ UNCHANGED <<captureState, pc, client, dev, shown, exit, key>>

NextConfig ==
  \/ SetApiKey
  \/ ClearApiKey
  \/ NewConfigManager

SpecConfig == InitConfig /\ [][NextConfig]_vars

----------------------------------------------------------------------------
(* main(): the command line *)

\* the flags the README documents, with the short forms main() reads
Flags == {"--version", "-v", "--help", "-h", "--setup", "--clear"}

\* args.includes('--version') || args.includes('-v'), and the same for help
printsAndExits(args) == args \cap {"--version", "-v", "--help", "-h"} # {}

\* the program is launched with some flags over some config.json
InitCli ==
  /\ Blank
  /\ \E file \in ConfigFiles : conf = Store(file, << >>, "none", "", FALSE)
  /\ client = null
  /\ pc = "launch"
  /\ argv \in SUBSET Flags
  /\ env = null

\* main() up to `await app.run()`: the version and help flags print and
\* exit with 0; otherwise HuelyCLI is constructed, which reads config.json,
\* and run() starts; no other element of args is looked at
Main ==
  /\ pc = "launch"
  /\ IF printsAndExits(argv)
     THEN /\ pc' = "exited"
          /\ exit' = Exited(0, "main", "flag", FALSE, FALSE)
          /\ conf' = conf
     ELSE /\ pc' = "starting"
          /\ exit' = exit
          /\ conf' = newConfigManager(conf.file)
  /\ UNCHANGED <<platform, dirBlack, now, fs, client, retryCount, imagePath, uniqueId,
                 capturedPath, cbErr, cbData, commands, attempts, waits, cmdStatus,
                 cmdError, ops, swept, session, orphans, dev, shown, requests, key, argv, env>>

NextCli == Main

SpecCli == InitCli /\ [][NextCli]_vars

----------------------------------------------------------------------------
(* The callback of webcam.capture on chosen directories *)

\* buffers around the limits of isImageBlack: the sampled window is w bytes
\* long and starts with d bytes of value dv; hv fills the skipped header and
\* t bytes of value 0 follow the window
WindowSamples ==
  UNION {{<<w, d>> : d \in {0, (9 * w) \div 10 - 1, (9 * w) \div 10,
                                (9 * w) \div 10 + 1, w}} : w \in {10, 20, 1000}}
    \cup {<<0, 0>>, <<1, 0>>, <<1, 1>>}

GuardFrame(hv, dv, w, d, t) ==
  <<Run(255, 1), Run(216, 1), Run(hv, 98), Run(dv, d), Run(128, w - d), Run(0, t)>>

GuardBuffers ==
  {GuardFrame(hv, dv, wd[1], wd[2], 0) : hv \in {0, 96}, dv \in {19, 20}, wd \in WindowSamples}
    \cup {GuardFrame(96, 0, 1000, d, 200) : d \in {899, 900, 901}}
    \cup {<<>>, <<Run(255, 1)>>, <<Run(255, 1), Run(216, 1), Run(0, 48)>>,
          <<Run(255, 1), Run(216, 1), Run(0, 97)>>}

\* capturesDir when the callback runs: any set of the probed candidates, each
\* a fresh bitmap, or one fresh file at <base>.jpg holding a buffer of
\* GuardBuffers
CallbackDirs(uid, t) ==
  LET base == baseFilepath(tempFilename("linux", uid))
      cand(e) == [base EXCEPT !.ext = e]
  IN {[m \in {cand(e) : e \in E} |-> File(t, BmpBright, TRUE)] :
        E \in SUBSET {extensions[i] : i \in 1..Len(extensions)}}
     \cup {[m \in {cand(".jpg")} |-> File(t, b, TRUE)] : b \in GuardBuffers}

\* the facility has exited without error and the callback is about to run
InitNormalize ==
  /\ platform \in {"linux", "win32"}
  /\ dirBlack \in BOOLEAN
  /\ now = StartTime
  /\ \E r \in RandomIds :
       /\ uniqueId = makeUniqueId(StartTime, r)
       /\ attempts = <<[sid |-> makeUniqueId(StartTime, r), outcome |-> "pending"]>>
       /\ fs \in CallbackDirs(makeUniqueId(StartTime, r), StartTime)
  /\ client = "sk-live"
  /\ pc = "callback"
  /\ retryCount = 0
  /\ imagePath = NoName
  /\ capturedPath = NoName
  /\ cbErr = NoErr
  /\ cbData = NoName
  /\ commands = 1
  /\ waits = <<>>
  /\ cmdStatus = "capturing"
  /\ cmdError = NoErr
  /\ ops = <<"sweep", "capture">>
  /\ swept = {}
  /\ session = "first"
  /\ orphans = {}
  /\ shown = <<>>
  /\ requests = <<>>
  /\ exit = NoExit
  /\ conf = newConfigManager(saveConfig(assignKey(<< >>, "sk-live")))
  /\ env = null
  /\ key = [chunk |-> <<" ">>, command |-> "capture", skipped |-> 0, read |-> 1]
  /\ argv = {}
  /\ dev = DefaultStartup

NextNormalize == CaptureCallback

SpecNormalize == InitNormalize /\ [][NextNormalize]_vars

----------------------------------------------------------------------------
(* Start-up: HuelyCLI.selectAndInitializeWebcam *)

InitDevices ==
  /\ Constructed
  /\ env = null
  /\ pc = "starting"
  /\ \E nodes \in SUBSET VideoNodes, list \in WebcamLists, names \in CameraNameLists :
       dev = Discovery(nodes, list, names, <<>>, "", FALSE, "")

\* `devices = await this.webcamManager.listDevices()`
ListDevices ==
  /\ pc = "starting"
  /\ pc' = "selecting"
  /\ dev' = [dev EXCEPT !.devices = listDevices(platform, dev.nodes, dev.list, dev.names)]
  /\ UNCHANGED <<platform, dirBlack, now, fs, client, retryCount, imagePath, uniqueId,
                 capturedPath, cbErr, cbData, commands, attempts, waits, cmdStatus,
                 cmdError, ops, swept, session, orphans,
                 shown, requests, exit, conf, key, argv, env>>

\* `selectedDevice = await this.ui.selectWebcam(devices)`, initializeWebcam;
\* a throw reaches the catch clause of initialize(), which exits
SelectWebcam ==
  /\ pc = "selecting"
  /\ IF selectWebcam(dev.devices) = {}
     THEN /\ pc' = "exited"
          /\ dev' = [dev EXCEPT !.error = noWebcamsText]
          /\ exit' = Exited(1, "initialize", "", FALSE, FALSE)
     ELSE /\ pc' = "listening"
          /\ \E id \in selectWebcam(dev.devices) :
               dev' = [dev EXCEPT !.selected = id,
                                  !.device = initializeWebcam(platform, id),
                                  !.prompted = selectPrompts(dev.devices)]
          /\ exit' = exit
  /\ UNCHANGED <<platform, dirBlack, now, fs, client, retryCount, imagePath, uniqueId,
                 capturedPath, cbErr, cbData, commands, attempts, waits, cmdStatus,
                 cmdError, ops, swept, session, orphans,
                 shown, requests, conf, key, argv, env>>

NextDevices ==
  \/ ListDevices
  \/ SelectWebcam

SpecDevices == InitDevices /\ [][NextDevices]_vars

----------------------------------------------------------------------------
(* Properties *)

lastOutcome == IF attempts = <<>> THEN "none" ELSE attempts[Len(attempts)].outcome

\* captureImage has resolved and no later attempt has started
justResolved == lastOutcome = "resolved"

\* every attempt of the command was classified degenerate and the command failed
exhausted ==
  /\ pc = "listening"
  /\ cmdStatus = "capture_failed"
  /\ Len(attempts) = maxRetries
  /\ \A k \in 1..Len(attempts) : attempts[k].outcome = "black"

otherFailures == {"facility", "notfound", "stale", "read", "convert"}

\* C1: a capture command with a configured client invokes captureImage at
\* least once and at most 3 times, and every attempt but the last one of the
\* command failed with a degenerate-frame classification.
C1_AttemptsBoundedAndBlackOnly ==
  /\ Len(attempts) <= 3
  /\ cmdStatus \in {"capturing", "analyzing", "done", "analysis_failed", "capture_failed"}
       => Len(attempts) >= 1
  /\ \A k \in 1..(Len(attempts) - 1) : attempts[k].outcome = "black"

\* C2: an attempt that failed for a reason other than a degenerate frame is
\* the last attempt of its command, and the command has failed with it.
C2_OtherFailureNotRetried ==
  \A k \in 1..Len(attempts) :
    attempts[k].outcome \in otherFailures
      => k = Len(attempts) /\ pc = "listening" /\ cmdStatus = "capture_failed"

\* C3 (as stated): the wait before the third attempt is strictly longer than
\* the wait before the second attempt.
C3_DelayIncreases == Len(waits) >= 2 => waits[2] > waits[1]

\* C3 (amended): every settle delay of a command is the same fixed 2000 ms, so
\* the wait before the third attempt equals the wait before the second.
C3_DelayConstant ==
  /\ \A i \in 1..Len(waits) : waits[i] = 2000
  /\ Len(waits) >= 2 => waits[2] = waits[1]

C3_Witness == Len(waits) = 2 /\ Len(attempts) = 3

\* C4: after three consecutive degenerate attempts the command fails with the
\* exhaustion message.
C4_ExhaustionMessage == exhausted => cmdError.text = exhaustedText

\* C5: when a command has exhausted its retry budget, no file carrying the
\* session identifier of any of its attempts is left in the directory.
C5_NoResidueAfterExhaustion ==
  exhausted => \A k \in 1..Len(attempts) : sessionFiles(fs, attempts[k].sid) = {}

\* C6: when captureImage has rejected after the facility returned (artifact not
\* found, stale, unreadable or not convertible), no file carrying that
\* attempt's session identifier is left in the directory.
C6_FailedAttemptLeavesNothing ==
  lastOutcome \in {"notfound", "stale", "read", "convert"}
    => sessionFiles(fs, uniqueId) = {}

\* C7: the path returned by a successful captureImage names an existing file
\* whose first two bytes are 0xFF 0xD8.
C7_ReturnedIsJpeg ==
  justResolved =>
    /\ existsSync(fs, imagePath)
    /\ byteAt(fs[imagePath].data, 0) = 255
    /\ byteAt(fs[imagePath].data, 1) = 216

\* C8: the path returned by a successful captureImage names a file whose bytes
\* isImageBlack does not classify as degenerate, and the guard was run on it.
C8_ReturnedPassedGuard ==
  justResolved =>
    /\ existsSync(fs, imagePath)
    /\ ~isImageBlack(fs[imagePath].data)
    /\ \E i \in 1..Len(ops) : ops[i] = "guard"

C8_Witness ==
  /\ justResolved
  /\ \E i \in 1..Len(ops) : ops[i] = "rename"
  /\ fs[imagePath].data = JpegBright

\* C9: after a successful normalization the only file carrying the attempt's
\* session identifier is the final capture_<sessionId>.jpeg.
C9_OneFilePerSuccess ==
  justResolved =>
    /\ imagePath = finalFilename(uniqueId)
    /\ sessionFiles(fs, uniqueId) = {finalFilename(uniqueId)}

C9_Witness ==
  /\ justResolved
  /\ \E i \in 1..Len(ops) : ops[i] = "jimp.write"
  /\ sessionFiles(fs, uniqueId) = {finalFilename(uniqueId)}

\* C10: when the callback finds the raw artifact with a modification time more
\* than 5 seconds in the past, captureImage rejects with the stale-artifact
\* error, whatever the content, and the file is neither converted, renamed,
\* deleted nor run through the quality check.
C10_StaleRejected ==
  [][ (/\ pc = "callback"
       /\ cbErr = NoErr
       /\ LET c == resolveCaptured(fs, tempFilename(platform, uniqueId), uniqueId, cbData)
          IN existsSync(fs, c) /\ now - fs[c].mtime > 5000)
      => (/\ attempts'[Len(attempts')].outcome = "stale"
          /\ cmdStatus' = "capture_failed"
          /\ cmdError'.text = staleText
          /\ fs' = fs
          /\ \A i \in 1..Len(ops') : ops'[i] \notin {"guard", "rename", "unlink", "jimp.read", "jimp.write"}) ]_vars

C10_Witness ==
  /\ lastOutcome = "stale"
  /\ cmdError.text = staleText
  /\ \E f \in sessionFiles(fs, uniqueId) : fs[f].data = BmpBlack /\ now - fs[f].mtime > 5000

\* C20: listDevices resolves with at least one device descriptor on every
\* platform, whether or not the /dev/video probe, NodeWebcam.list or the name
\* lookup finds anything, so selectWebcam never sees an empty list and
\* never raises 'No webcams available'.
C20_DeviceListNeverEmpty ==
  /\ pc \in {"selecting", "listening"} => Len(dev.devices) >= 1
  /\ pc # "exited"
  /\ dev.error # "No webcams available"

\* on linux nothing was enumerated and no name was found; the session started
C20_Witness ==
  /\ pc = "listening"
  /\ platform = "linux"
  /\ dev.nodes = {} /\ dev.list = <<>> /\ dev.names = <<>>
  /\ dev.selected = "0"

\* C11: every file the callback takes as the raw artifact of an attempt, and
\* then hands to the conversion, renames or deletes, has a name that contains
\* the attempt's uniqueId, whether it was reported by the facility or probed.
C11_OnlyOwnSessionFiles ==
  [][pc = "callback" =>
       /\ \A f \in DOMAIN fs \ DOMAIN fs' : includesId(f, uniqueId)
       /\ capturedPath' # NoName => includesId(capturedPath', uniqueId)]_vars

\* the file the callback step took as the raw artifact: the one handed to the
\* conversion, or the one it renamed or deleted
takenFiles == IF pc' = "converting" THEN {capturedPath'} ELSE DOMAIN fs \ DOMAIN fs'

\* C12: when the reported path does not exist, the callback probes
\* capture_temp_<id> with .jpg, .jpeg, .bmp, .ppm, .png and no extension, in
\* that order, and goes on with the first that exists; it fails with the
\* not-found error if and only if none exists.
C12_ProbeOrder ==
  [][(/\ pc = "callback"
      /\ cbErr = NoErr
      /\ (IF cbData # NoName THEN cbData ELSE tempFilename(platform, uniqueId)) \notin DOMAIN fs)
     =>
     LET base == [pre |-> "capture_temp_", sid |-> uniqueId, ext |-> ""]
         order == <<".jpg", ".jpeg", ".bmp", ".ppm", ".png", "">>
         found == {i \in 1..6 : [base EXCEPT !.ext = order[i]] \in DOMAIN fs}
     IN IF found = {}
        THEN lastOutcome' = "notfound"
        ELSE /\ lastOutcome' # "notfound"
             /\ \E i \in found :
                  /\ \A j \in found : i <= j
                  /\ takenFiles = {[base EXCEPT !.ext = order[i]]}]_vars

\* on linux <id>.jpg was missing, <id>.jpeg was taken while .bmp and .png exist
C12_Witness ==
  /\ pc = "converting"
  /\ platform = "linux"
  /\ capturedPath = [pre |-> "capture_temp_", sid |-> uniqueId, ext |-> ".jpeg"]
  /\ [capturedPath EXCEPT !.ext = ".jpg"] \notin DOMAIN fs
  /\ [capturedPath EXCEPT !.ext = ".bmp"] \in DOMAIN fs
  /\ [capturedPath EXCEPT !.ext = ".png"] \in DOMAIN fs

\* C13: when the raw artifact starts with the JPEG magic FF D8 and the
\* callback resolves with it, the file at the returned capture_<id>.jpeg
\* holds exactly the bytes of the raw artifact: it was renamed, and Jimp
\* never wrote it.
C13_RenamedBytesIdentical ==
  [][pc = "callback" =>
       \A raw \in DOMAIN fs \ DOMAIN fs' :
         (/\ byteAt(fs[raw].data, 0) = 255
          /\ byteAt(fs[raw].data, 1) = 216
          /\ lastOutcome' = "resolved")
         => /\ imagePath' = [pre |-> "capture_", sid |-> uniqueId, ext |-> ".jpeg"]
            /\ imagePath' \in DOMAIN fs'
            /\ fs'[imagePath'].data = fs[raw].data
            /\ \A i \in 1..Len(ops') : ops'[i] \notin {"jimp.read", "jimp.write"}]_vars

\* a JPEG frame went through the rename branch and is being analysed
C13_Witness ==
  /\ pc = "analyzing"
  /\ \E i \in 1..Len(ops) : ops[i] = "rename"
  /\ imagePath \in DOMAIN fs
  /\ isJpeg(fs[imagePath].data)
  /\ fs[imagePath].mtime = now

\* the one file in capturesDir when the callback runs, if it goes to the
\* quality check of the rename branch
guarded(f) ==
  /\ pc = "callback"
  /\ cbErr = NoErr
  /\ DOMAIN fs = {f}
  /\ ~(byteAt(fs[f].data, 0) = 66 /\ byteAt(fs[f].data, 1) = 77)
  /\ ~(byteAt(fs[f].data, 0) = 80 /\ byteAt(fs[f].data, 1) = 54)

\* n = min(1000, length - 100)
sampledBytes(buffer) == Min2(1000, length(buffer) - 100)

\* the number of offsets 100 .. 100+n-1 that hold a byte below 20
darkSampled(buffer) ==
  Cardinality({i \in 100..(100 + sampledBytes(buffer) - 1) : byteAt(buffer, i) \in 0..19})

\* C14 as stated: isImageBlack(buffer) is true exactly when the number of
\* bytes below 20 among the n = min(1000, length - 100) bytes at offsets
\* 100 .. 100+n-1 is strictly more than 90% of n.
C14_DarkRatioExactly ==
  [][\A f \in DOMAIN fs :
       guarded(f) =>
         (lastOutcome' = "black"
            <=> 10 * darkSampled(fs[f].data) > 9 * sampledBytes(fs[f].data))]_vars

\* C14 amended: for a buffer longer than 100 bytes isImageBlack is true
\* exactly when the dark bytes are strictly more than 90% of the n sampled
\* bytes (exactly 90% is not degenerate); a buffer of 100 bytes or fewer,
\* where n <= 0, is never degenerate.
C14_DarkRatioWhenSampled ==
  [][\A f \in DOMAIN fs :
       guarded(f) =>
         (lastOutcome' = "black"
            <=> /\ length(fs[f].data) > 100
                /\ 10 * darkSampled(fs[f].data) > 9 * sampledBytes(fs[f].data))]_vars

\* a frame whose 1000 sampled bytes are dark in exactly 900 places was accepted
C14_Witness ==
  /\ lastOutcome = "resolved"
  /\ imagePath \in DOMAIN fs
  /\ sampledBytes(fs[imagePath].data) = 1000
  /\ darkSampled(fs[imagePath].data) = 900

\* a step that starts a capture attempt: the first of a command or a retry
attemptStarts == pc # "invoking" /\ pc' = "invoking"

processExits == pc # "exited" /\ pc' = "exited" /\ exit'.asked # ""

\* C16: no sweep deletes a file younger than its threshold, whatever the
\* file's name or session: the sweep at the start of an attempt deletes no
\* file aged 30 seconds or less, the cleanup at exit no file aged 5 minutes
\* or less.
C16_SweepsSpareYoungFiles ==
  [][/\ attemptStarts =>
          \A f \in DOMAIN fs \ DOMAIN fs' : now' - fs[f].mtime > 30000
     /\ processExits =>
          \A f \in DOMAIN fs \ DOMAIN fs' : now' - fs[f].mtime > 300000]_vars

\* the cleanup at exit ran over a file older than 30 seconds and younger than
\* 5 minutes, and left it
C16_Witness ==
  /\ pc = "exited"
  /\ swept = {}
  /\ \E f \in DOMAIN fs : now - fs[f].mtime > 30000 /\ now - fs[f].mtime <= 300000

\* the files named capture_* that are older than 30 seconds
staleCaptures ==
  {f \in DOMAIN fs : f.pre \in {"capture_", "capture_temp_"} /\ now - fs[f].mtime > 30000}

firstSweepOfNext == session = "next" /\ commands = 0 /\ attemptStarts

earlierIds == {attempts[k].sid : k \in 1..Len(attempts)}

\* C19: no capture attempt is given the uniqueId of an earlier attempt, be it
\* an earlier attempt of the same command or an attempt of the command before
\* it, in this session or the previous one; so its temp and final paths
\* differ from theirs.
C19_SessionIdsNeverRepeat ==
  [][attemptStarts =>
       /\ uniqueId' \notin earlierIds
       /\ \A u \in earlierIds :
            /\ tempFilename(platform, uniqueId') # tempFilename(platform, u)
            /\ finalFilename(uniqueId') # finalFilename(u)]_vars

\* the third attempt of a command has started: three identifiers, all different
C19_Witness ==
  /\ pc = "invoking"
  /\ Len(attempts) = 3
  /\ uniqueId = attempts[3].sid
  /\ Cardinality(earlierIds) = 3

----------------------------------------------------------------------------
(* Selecting the webcam *)

\* C21: once selectWebcam has returned, a list of one entry gave that entry's
\* id without a prompt, a prompt was issued only for a list of two or more
\* entries, and the id returned after a prompt is the id of a listed device
C21_SelectionWithoutNeedlessPrompt ==
  (pc = "listening" /\ dev.devices # <<>>) =>
    /\ Len(dev.devices) = 1 => (dev.selected = dev.devices[1].id /\ ~dev.prompted)
    /\ dev.prompted => Len(dev.devices) >= 2
    /\ dev.prompted => \E k \in 1..Len(dev.devices) : dev.selected = dev.devices[k].id

\* a single device was listed and returned without a prompt
C21_Witness ==
  /\ pc = "listening"
  /\ Len(dev.devices) = 1
  /\ dev.nodes # {}
  /\ ~dev.prompted
  /\ dev.selected = dev.devices[1].id
----------------------------------------------------------------------------
(* The key loop *)

\* C22: the process ends only when the user or a signal asked for it; no
\* failure while a command is handled ends it
C22_FailuresKeepTheSession == pc = "exited" => exit.asked # ""

\* C23: a capture command that failed has printed exactly one failure message
C23_OneMessagePerFailure ==
  (/\ pc = "listening"
   /\ key.command = "capture"
   /\ cmdStatus \in {"no_key", "capture_failed", "analysis_failed"}) => Len(shown) = 1

\* C24: a quit asked for by key or signal ends with code 0 after both
\* cleanups; an exit out of initialize() has code 1
C24_GracefulQuitExitsZero ==
  pc = "exited" =>
    /\ exit.asked \in {"quit", "signal"} => (exit.code = 0 /\ exit.artifacts /\ exit.ui)
    /\ exit.by = "initialize" => exit.code = 1

----------------------------------------------------------------------------
(* Settling *)

\* C25: every call of captureImage is eventually settled: the attempt it
\* started ends resolved or rejected
C25_CaptureSettles == (lastOutcome = "pending") ~> (lastOutcome # "pending")

----------------------------------------------------------------------------
(* The vision request *)

\* C26: every file sent to the vision service exists, is not empty and
\* begins with the bytes 0xFF 0xD8; a returned file that fails one of these
\* ends the command with an analysis error and no request
C26_OnlyJpegIsSent ==
  /\ \A k \in 1..Len(requests) :
       /\ requests[k] \in DOMAIN fs
       /\ length(fs[requests[k]].data) > 0
       /\ byteAt(fs[requests[k]].data, 0) = 255
       /\ byteAt(fs[requests[k]].data, 1) = 216
  /\ (justResolved /\ pc = "listening" /\ analyzeRejects(fs, imagePath)) =>
       (requests = <<>> /\ cmdStatus = "analysis_failed")

\* a returned file that is not a JPEG ended the command without a request
C26_Witness ==
  /\ justResolved
  /\ pc = "listening"
  /\ cmdStatus = "analysis_failed"
  /\ imagePath \in DOMAIN fs
  /\ length(fs[imagePath].data) > 0
  /\ ~isJpeg(fs[imagePath].data)
  /\ requests = <<>>

\* C27: the file a successful capture returned is sent to the vision service
\* exactly once, and once it is on disk it is eventually deleted
C27_ArtifactConsumedAndDeleted ==
  /\ []((justResolved /\ pc = "listening") => Len(requests) = 1)
  /\ (imagePath # NoName /\ imagePath \in DOMAIN fs) ~> (imagePath \notin DOMAIN fs)
----------------------------------------------------------------------------
(* The credential store *)

\* C28: after setApiKey(k) getApiKey returns k, after clearApiKey it returns
\* null, in the instance that made the call and in one constructed
\* afterwards, and the file agrees with the instance; over a missing or
\* unparsable file getApiKey returns null
C28_StoreRoundTrip ==
  /\ conf.op = "set" =>
       (getApiKey(conf.config) = conf.arg /\ getApiKey(loadConfig(conf.file)) = conf.arg)
  /\ conf.op = "clear" =>
       (getApiKey(conf.config) = null /\ getApiKey(loadConfig(conf.file)) = null)
  /\ (conf.op = "load" /\ conf.file.kind # "json") => getApiKey(conf.config) = null

\* a ConfigManager constructed after setApiKey("sk-next") over a file that
\* held another key returns the new key
C28_Witness ==
  /\ pc = "store"
  /\ conf.op = "set"
  /\ conf.arg = "sk-next"
  /\ conf.fresh
  /\ "model" \in DOMAIN conf.config
  /\ getApiKey(conf.config) = "sk-next"

\* C29: once main() has gone past its flags, without a version or help flag
\* among them, --clear has left no stored key and --setup has stored one
C29_FlagsActedUpon ==
  (pc # "launch" /\ ~printsAndExits(argv)) =>
    /\ "--clear" \in argv => getApiKey(loadConfig(conf.file)) = null
    /\ "--setup" \in argv => conf.op = "set"

----------------------------------------------------------------------------
(* The documented workflow *)

\* C31: in the interactive session the Enter key starts a capture: the chunk
\* of the Enter key is dispatched to the capture command and a capture
\* command begins
C31_EnterCaptures ==
  [][(key' # key /\ key'.chunk = <<"CR">>) =>
       (key'.command = "capture" /\ commands' = commands + 1)]_vars

----------------------------------------------------------------------------
(* Propagation of errors *)

\* C32: an error raised in the capture pipeline reaches the orchestrator:
\* once captureImage has thrown, the retry loop of captureAndAnalyze has
\* caught the error and recorded the attempt as failed
C32_ErrorsReachTheOrchestrator ==
  (pc = "pending" \/ (pc = "exited" /\ exit.asked = "")) => lastOutcome # "pending"

----------------------------------------------------------------------------
(* Device handles *)

\* C33: once a device is selected, on Linux the capture facility was created
\* with a path of the form /dev/video<N>, whether the id came from the probed
\* device nodes or from the fallback enumeration; on the other platforms it
\* was created with the id itself
C33_LinuxDevicePath ==
  pc = "listening" =>
    IF platform = "linux"
    THEN dev.device \in {"/dev/video" \o ToString(n) : n \in 0..99}
    ELSE dev.device = dev.selected

----------------------------------------------------------------------------
(* Requests to the vision service *)

\* C34: within one capture command at most one request goes to the vision
\* service, only after an attempt of that command resolved and with the path
\* that attempt returned; a command whose capture failed sends none, and a
\* command that follows a failed analysis never sends the earlier artifact
C34_OneRequestPerCommand ==
  /\ Len(requests) <= 1
  /\ requests # <<>> =>
       /\ justResolved
       /\ requests[1] = imagePath
       /\ requests[1] = finalFilename(attempts[Len(attempts)].sid)
  /\ cmdStatus = "capture_failed" => requests = <<>>

\* the command after the failed analysis has sent its own artifact while the
\* artifact of the failed command is still on disk
C34_Witness ==
  /\ commands = 1
  /\ pc = "analyzing"
  /\ Len(requests) = 1
  /\ \E m \in DOMAIN fs : m # requests[1] /\ m.pre = "capture_" /\ m.sid[1] < StartTime

----------------------------------------------------------------------------
(* A command without a client *)

\* C35: a capture command given while no client is configured only reports
\* the missing key: no sweep, no capture attempt and no request happen,
\* capturesDir and the selected device stay as they were, and the session
\* keeps listening
C35_NoKeyCommandIsInert ==
  [][(client = null /\ commands' = commands + 1) =>
       /\ fs' = fs
       /\ dev' = dev
       /\ swept' = swept
       /\ attempts' = <<>>
       /\ ops' = <<>>
       /\ requests' = <<>>
       /\ Len(shown') = 1
       /\ shown'[1].via = "showError"
       /\ cmdStatus' = "no_key"
       /\ pc' = "listening"]_vars

\* the command was given without a key while capturesDir held a file old
\* enough for the sweep to delete
C35_Witness ==
  /\ cmdStatus = "no_key"
  /\ \E m \in DOMAIN fs : startsWithCapture(m) /\ now - fs[m].mtime > thirtySeconds

----------------------------------------------------------------------------
(* Empty files *)

\* C36: the path a successful captureImage returns never names an empty
\* file: a frame of zero bytes makes the attempt fail inside captureImage
C36_ReturnedIsNotEmpty ==
  justResolved => (existsSync(fs, imagePath) /\ length(fs[imagePath].data) > 0)

----------------------------------------------------------------------------
(* The key of the client *)

\* C37: while the session runs, a stored key is the key the client was built
\* with, also when OPENAI_API_KEY is set; and a request to the vision service
\* that follows a stored key k of the K command is made by a client built
\* from k
C37_StoredKeyWins ==
  /\ []((pc # "exited" /\ getApiKey(conf.config) # null) => client = getApiKey(conf.config))
  /\ [][(Len(requests') > Len(requests) /\ conf.op = "set") => client = conf.arg]_vars

\* a request was sent after the K command replaced the stored key, with
\* OPENAI_API_KEY set all along
C37_Witness ==
  /\ env # null
  /\ conf.op = "set"
  /\ conf.arg = "sk-next"
  /\ client = "sk-next"
  /\ Len(requests) = 1
====
